---- MODULE Spec2Model ----
(***************************************************************************)
(* The routing trie of hawx/route (lookup.go): treeLookup.Add builds the   *)
(* trie, treeLookup.Get matches a request path against it.  Strings are    *)
(* sequences of one-character strings, so that strings.Split,              *)
(* strings.Join, HasPrefix and HasSuffix are computed, not assumed.        *)
(* cleanPath (lookup.go) and the Router around the trie (Handle and        *)
(* ServeHTTP under its sync.RWMutex) follow.                               *)
(***************************************************************************)
EXTENDS Integers, Sequences, FiniteSets, TLC

VARIABLES tree, nAdds, routes, op, arg, panicked, handler, params, pre,
          cleaned, mu, procs

vars == <<tree, nAdds, routes, op, arg, panicked, handler, params, pre,
          cleaned, mu, procs>>

\* the state of the Router's lock and goroutines, and of cleanPath's results
routerVars == <<cleaned, mu, procs>>

(***************************************************************************)
(* Bounds of the model.                                                    *)
(***************************************************************************)
\* Add calls in a behaviour of Spec (registration followed by lookups).
MaxAdds == 3
\* Add calls in a behaviour of SpecRegister (registration only).
MaxRegs == 2
\* Segments in a request path handed to Get.
MaxPathSegs == 2
\* Add calls of a run that registers handlers chosen apart from the route
MaxRebinds == 2
\* Characters of a string handed to cleanPath
MaxCleanLen == 5
\* Applications of cleanPath to its own result
MaxCleans == 2
\* Goroutines calling into one Router
NumGoroutines == 2
\* Handle calls on one Router
MaxHandles == 3
\* Add calls of a run that measures the cost of Get
MaxCostAdds == 4

(***************************************************************************)
(* Strings.                                                                *)
(***************************************************************************)
\* strings.HasPrefix(s, c) for a one-character prefix c
HasPrefix(s, c) == Len(s) > 0 /\ s[1] = c

\* strings.HasSuffix(s, c) for a one-character suffix c
HasSuffix(s, c) == Len(s) > 0 /\ s[Len(s)] = c

\* strings.Split(s, "/"): always at least one element, "" splits to [""]
RECURSIVE Split(_)
Split(s) ==
  IF \A i \in 1..Len(s) : s[i] # "/"
  THEN <<s>>
  ELSE LET i == CHOOSE k \in 1..Len(s) :
                  s[k] = "/" /\ \A j \in 1..(k-1) : s[j] # "/"
       IN <<SubSeq(s, 1, i-1)>> \o Split(SubSeq(s, i+1, Len(s)))

\* strings.Join(parts, "/")
RECURSIVE Join(_)
Join(parts) ==
  IF parts = <<>> THEN <<>>
  ELSE IF Len(parts) = 1 THEN parts[1]
  ELSE parts[1] \o <<"/">> \o Join(Tail(parts))

(***************************************************************************)
(* The trie: a heap of nodes, a function from addresses to nodes.  A node  *)
(* is allocated at the address of its parent extended by the pattern       *)
(* segment that created it, so the root is at <<>>.  A nil pointer is the   *)
(* empty sequence, a non-nil one a sequence of length one.  A handler is    *)
(* the string it was made from (registeredHandler{val} of lookup_test.go). *)
(***************************************************************************)
NilHandler == <<"nil">>

\* &node{children: map[string]*node{}, value: nil}
NewNode == [children |-> <<>>, wildedge |-> <<>>, greedyleaf |-> <<>>,
            value |-> NilHandler]

\* newLookup()
newLookup == (<<>> :> NewNode)

root == <<>>

NoPanic == "none"

\* curr.children[part], ok
HasChild(t, curr, part) == part \in DOMAIN t[curr].children

(***************************************************************************)
(* node.add, one operator per branch of the function.                      *)
(***************************************************************************)
\* The address of the node a call allocates below curr for segment part
NewAddr(curr, part) == Append(curr, part)

\* child = &node{...}; curr.children[part] = child
LinkChild(t, curr, part) ==
  (NewAddr(curr, part) :> NewNode)
    @@ [t EXCEPT ![curr].children = (part :> NewAddr(curr, part)) @@ @]

\* child = &node{...}; curr.wildedge = &wildedge{name: part[1:], child: child}
LinkWildedge(t, curr, part) ==
  (NewAddr(curr, part) :> NewNode)
    @@ [t EXCEPT ![curr].wildedge =
          <<[name |-> Tail(part), child |-> NewAddr(curr, part)]>>]

\* curr.greedyleaf = &greedyleaf{name: part[1:], value: handler}
SetGreedyleaf(t, curr, part, h) ==
  [t EXCEPT ![curr].greedyleaf = <<[name |-> Tail(part), value |-> h]>>]

\* lookup.go:107-121, the ":" branch: the heap, the panic raised if any, and
\* the child the walk continues in
\* addWild taking the named edge that is there whatever its name
addWild_AnyName(t, curr, part) ==
  IF t[curr].wildedge # <<>>
  THEN [tree |-> t, child |-> t[curr].wildedge[1].child, panic |-> NoPanic]
  ELSE IF part = <<":">>
       THEN [tree |-> t, child |-> curr, panic |-> "parameter name is empty"]
       ELSE [tree |-> LinkWildedge(t, curr, part),
             child |-> NewAddr(curr, part), panic |-> NoPanic]

addWild(t, curr, part) ==
  IF t[curr].wildedge # <<>>
  THEN IF t[curr].wildedge[1].name # Tail(part)
       THEN [tree |-> t, child |-> curr,
             panic |-> "wildedge with different name already registered"]
       ELSE [tree |-> t, child |-> t[curr].wildedge[1].child, panic |-> NoPanic]
  ELSE IF part = <<":">>
       THEN [tree |-> t, child |-> curr, panic |-> "parameter name is empty"]
       ELSE [tree |-> LinkWildedge(t, curr, part),
             child |-> NewAddr(curr, part), panic |-> NoPanic]

\* addGreedy replacing the greedyleaf before it reports the conflict
addGreedy_Overwrite(t, curr, part, rest, h) ==
  IF Len(rest) > 0
  THEN [tree |-> t, panic |-> "path after greedy parameter"]
  ELSE IF part = <<"*">>
  THEN [tree |-> t, panic |-> "greedy parameter name is empty"]
  ELSE [tree |-> SetGreedyleaf(t, curr, part, h),
        panic |-> IF t[curr].greedyleaf # <<>>
                  THEN "greedy parameter already registered"
                  ELSE NoPanic]

\* addGreedy installing the leaf before it checks what follows the segment
addGreedy_LeafFirst(t, curr, part, rest, h) ==
  IF part = <<"*">>
  THEN [tree |-> t, panic |-> "greedy parameter name is empty"]
  ELSE IF t[curr].greedyleaf # <<>>
  THEN [tree |-> t, panic |-> "greedy parameter already registered"]
  ELSE [tree |-> SetGreedyleaf(t, curr, part, h),
        panic |-> IF Len(rest) > 0 THEN "path after greedy parameter"
                  ELSE NoPanic]

\* lookup.go:123-135, the "*" branch: the heap and the panic raised if any
addGreedy(t, curr, part, rest, h) ==
  IF Len(rest) > 0
  THEN [tree |-> t, panic |-> "path after greedy parameter"]
  ELSE IF part = <<"*">>
  THEN [tree |-> t, panic |-> "greedy parameter name is empty"]
  ELSE IF t[curr].greedyleaf # <<>>
  THEN [tree |-> t, panic |-> "greedy parameter already registered"]
  ELSE [tree |-> SetGreedyleaf(t, curr, part, h), panic |-> NoPanic]

RECURSIVE add(_, _, _, _)
add(t, curr, parts, h) ==
  IF parts = <<>>
  THEN \* parts[0] on an empty slice
       [tree |-> t, panic |-> "index out of range"]
  ELSE
    LET part == Head(parts)
        rest == Tail(parts)
        \* lines 141-148, with the child and the heap the branch produced
        deeper(t2, child) ==
          IF Len(rest) > 0
          THEN add(t2, child, rest, h)
          ELSE [tree |-> [t2 EXCEPT ![child].value = h], panic |-> NoPanic]
    IN IF HasChild(t, curr, part)
       THEN deeper(t, t[curr].children[part])
       ELSE IF HasPrefix(part, ":")
       THEN LET w == addWild(t, curr, part)
            IN IF w.panic # NoPanic
               THEN [tree |-> w.tree, panic |-> w.panic]
               ELSE deeper(w.tree, w.child)
       ELSE IF HasPrefix(part, "*")
       THEN addGreedy(t, curr, part, rest, h)
       ELSE deeper(LinkChild(t, curr, part), NewAddr(curr, part))

\* treeLookup.Add
AddOp(t, path, h) ==
  IF path # <<"/">> /\ HasSuffix(path, "/")
  THEN [tree |-> t, panic |-> "cannot insert path with trailing slash"]
  ELSE add(t, root, Tail(Split(path)), h)

(***************************************************************************)
(* node.get.  pars is the one map every level of the recursion writes to.  *)
(***************************************************************************)
NoParams == <<>>

\* pars[name] = value
SetParam(pars, name, value) == (name :> value) @@ pars

\* delete(pars, name)
DeleteParam(pars, name) == [k \in (DOMAIN pars) \ {name} |-> pars[k]]

\* lookup.go:164-172
getEnd(t, curr, pars) ==
  IF t[curr].greedyleaf # <<>>
  THEN [handler |-> t[curr].greedyleaf[1].value,
        pars |-> SetParam(pars, t[curr].greedyleaf[1].name, <<>>)]
  ELSE [handler |-> t[curr].value, pars |-> pars]

\* getGreedy without the fallback to the greedyleaf after a dead end
getGreedy_NoFallback(t, curr, parts, res) == res

\* getGreedy preferring the greedyleaf to the handler found deeper
getGreedy_Always(t, curr, parts, res) ==
  IF t[curr].greedyleaf # <<>>
  THEN [handler |-> t[curr].greedyleaf[1].value,
        pars |-> SetParam(res.pars, t[curr].greedyleaf[1].name, Join(parts))]
  ELSE res

\* getGreedy binding the catch-all to the segments after the first one
getGreedy_TailOnly(t, curr, parts, res) ==
  IF res.handler = NilHandler /\ t[curr].greedyleaf # <<>>
  THEN [handler |-> t[curr].greedyleaf[1].value,
        pars |-> SetParam(res.pars, t[curr].greedyleaf[1].name,
                          Join(Tail(parts)))]
  ELSE res

\* lookup.go:211-217
getGreedy(t, curr, parts, res) ==
  IF res.handler = NilHandler /\ t[curr].greedyleaf # <<>>
  THEN [handler |-> t[curr].greedyleaf[1].value,
        pars |-> SetParam(res.pars, t[curr].greedyleaf[1].name, Join(parts))]
  ELSE res

RECURSIVE get(_, _, _, _)
get(t, curr, parts, pars) ==
  IF Len(parts) = 0 THEN getEnd(t, curr, pars)
  ELSE
    LET ok    == HasChild(t, curr, parts[1])
        wild  == t[curr].wildedge
        \* lines 193-217 for the child and map chosen by lines 174-191
        below(child, pars1) ==
          LET first == get(t, child, Tail(parts), pars1)
              retry ==
                IF first.handler = NilHandler /\ wild # <<>>
                THEN IF child = wild[1].child
                     THEN [handler |-> first.handler,
                           pars |-> DeleteParam(first.pars, wild[1].name)]
                     ELSE get(t, wild[1].child, Tail(parts),
                              SetParam(first.pars, wild[1].name, parts[1]))
                ELSE first
          IN getGreedy(t, curr, parts, retry)
    IN IF ok THEN below(t[curr].children[parts[1]], pars)
       ELSE IF wild # <<>>
       THEN below(wild[1].child, SetParam(pars, wild[1].name, parts[1]))
       ELSE IF t[curr].greedyleaf # <<>>
       THEN [handler |-> t[curr].greedyleaf[1].value,
             pars |-> SetParam(pars, t[curr].greedyleaf[1].name, Join(parts))]
       ELSE [handler |-> NilHandler, pars |-> pars]

\* Whether node.get, after child.get(parts[1:]) returned first, calls get
\* on the named edge's child (lookup.go:196-207)
Retries(t, curr, child, first) ==
  /\ first.handler = NilHandler
  /\ t[curr].wildedge # <<>>
  /\ child # t[curr].wildedge[1].child

\* The number of calls of node.get that curr.get(parts, pars) makes, itself
\* included; which calls are made does not depend on pars.
RECURSIVE getVisits(_, _, _)
getVisits(t, curr, parts) ==
  IF Len(parts) = 0 THEN 1
  ELSE
    LET wild == t[curr].wildedge
        below(child) ==
          1 + getVisits(t, child, Tail(parts))
            + (IF Retries(t, curr, child,
                          get(t, child, Tail(parts), NoParams))
               THEN getVisits(t, wild[1].child, Tail(parts))
               ELSE 0)
    IN IF HasChild(t, curr, parts[1]) THEN below(t[curr].children[parts[1]])
       ELSE IF wild # <<>> THEN below(wild[1].child)
       ELSE 1

\* GetParts keeping the trailing slash
GetParts_NoStrip(path) == Tail(Split(path))

\* The segments treeLookup.Get walks (lookup.go:154-158)
GetParts(path) ==
  Tail(Split(IF path # <<"/">> /\ HasSuffix(path, "/")
             THEN SubSeq(path, 1, Len(path) - 1)
             ELSE path))

\* registerRoutes(lookup, routes) of lookup_test.go: the routes added in
\* the order given, each with the handler made from it, up to the first
\* panic
RECURSIVE registerRoutes(_, _)
registerRoutes(t, rs) ==
  IF rs = <<>> THEN [tree |-> t, panic |-> NoPanic]
  ELSE LET r == AddOp(t, Head(rs), Head(rs))
       IN IF r.panic # NoPanic THEN r
          ELSE registerRoutes(r.tree, Tail(rs))

\* treeLookup.Get
GetOp(t, path) == get(t, root, GetParts(path), NoParams)

(***************************************************************************)
(* Inputs.                                                                 *)
(***************************************************************************)
\* "/" followed by the segments joined with "/"
Slashed(segs) == <<"/">> \o Join(segs)

SegSeqs(S, n) == UNION {[1..k -> S] : k \in 1..n}

\* Patterns Add rejects: a second name at the root, a trailing slash, and an
\* empty name behind a literal and behind a named parameter.
RejectedPatterns ==
  {<<"/", ":", "y">>, <<"/", "a", "/">>, <<"/", "a", "/", ":">>,
   <<"/", ":", "x", "/", "*">>}

FirstSegs == {<<"a">>, <<":", "x">>}

LastSegs == {<<"a">>, <<":", "y">>, <<"*", "p">>}

\* Patterns of the registration-and-lookup specification: the root, a
\* catch-all at the root, every one- and two-segment pattern with a literal
\* or a named parameter first and a literal, a named parameter or a
\* catch-all last, and the rejected ones.
RoutePatterns ==
  {<<"/">>, <<"/", "*", "p">>}
  \cup {Slashed(<<a>>) : a \in FirstSegs}
  \cup {Slashed(<<a, b>>) : a \in FirstSegs, b \in LastSegs}
  \cup RejectedPatterns

PatSegs == FirstSegs \cup LastSegs

BadSegs == {<<":">>, <<"*">>, <<>>, <<"*", "q">>}

\* Patterns of the registration-only specification: the above, malformed
\* segments, and patterns without the leading slash.
AllPatterns ==
  {Slashed(s) : s \in {<<a>> : a \in PatSegs \cup BadSegs}
                  \cup {<<a, b>> : a \in PatSegs \cup BadSegs,
                                   b \in PatSegs \cup BadSegs}}
  \cup {<<>>, <<"a">>, <<"a", "/", "a">>, <<":", "/", "a">>,
        <<"*", "p", "/", "a">>, <<"a", "/">>}

PathSegs == {<<"a">>, <<"b">>}

\* Request paths: one to MaxPathSegs segments, with and without a trailing
\* slash, and the root.
Paths ==
  {Slashed(s) : s \in SegSeqs(PathSegs, MaxPathSegs)}
  \cup {Slashed(s) \o <<"/">> : s \in SegSeqs(PathSegs, MaxPathSegs)}
  \cup {<<"/">>}

(***************************************************************************)
(* cleanPath.                                                              *)
(***************************************************************************)
\* The elements path.Clean keeps, first to last: empty and "." elements are
\* dropped, ".." removes the element before it, is dropped at the root of a
\* rooted path and kept at the front of any other.
RECURSIVE CleanElems(_, _, _)
CleanElems(elems, kept, rooted) ==
  IF elems = <<>> THEN kept
  ELSE LET e == Head(elems)
           rest == Tail(elems)
       IN IF e = <<>> \/ e = <<".">>
          THEN CleanElems(rest, kept, rooted)
          ELSE IF e = <<".", ".">>
          THEN IF kept # <<>> /\ kept[Len(kept)] # <<".", ".">>
               THEN CleanElems(rest, SubSeq(kept, 1, Len(kept) - 1), rooted)
               ELSE IF rooted
               THEN CleanElems(rest, kept, rooted)
               ELSE CleanElems(rest, Append(kept, e), rooted)
          ELSE CleanElems(rest, Append(kept, e), rooted)

\* path.Clean(p): the shortest equivalent path, "." for an empty result
Clean(p) ==
  LET rooted == HasPrefix(p, "/")
      out == (IF rooted THEN <<"/">> ELSE <<>>)
               \o Join(CleanElems(Split(p), <<>>, rooted))
  IN IF out = <<>> THEN <<".">> ELSE out

\* A cleanPath that puts the leading slash on after cleaning.
cleanPath_RootAfter(p) ==
  IF p = <<>> THEN <<"/">>
  ELSE LET c == Clean(p)
           np == IF c[1] # "/" THEN <<"/">> \o c ELSE c
       IN IF p[Len(p)] = "/" /\ np # <<"/">> THEN np \o <<"/">> ELSE np

\* cleanPath(p)
cleanPath(p) ==
  IF p = <<>> THEN <<"/">>
  ELSE LET p1 == IF p[1] # "/" THEN <<"/">> \o p ELSE p
           np == Clean(p1)
       IN IF p1[Len(p1)] = "/" /\ np # <<"/">> THEN np \o <<"/">> ELSE np

\* The strings handed to cleanPath: every string of "/", "." and a letter,
\* the empty one included (the paths of TestRouterUncleanPathRedirect are
\* made of these).
CleanChars == {"/", ".", "a"}

CleanInputs == UNION {[1..n -> CleanChars] : n \in 0..MaxCleanLen}

(***************************************************************************)
(* The Router: its lock and the goroutines calling it.                     *)
(***************************************************************************)
Goroutines == 1..NumGoroutines

\* sync.RWMutex: the goroutine holding it for writing (none: the empty set)
\* and the goroutines holding it for reading
Unlocked == [writer |-> {}, readers |-> {}]

NoReq == [kind |-> "none", method |-> "", path |-> <<>>, query |-> <<>>,
          h |-> NilHandler]

\* What a call has done: the status the Router wrote (0: none, the status
\* is the handler's when a handler was invoked), the Location header, the path
\* handed to tree.Get (a pointer as above: empty when Get was not called),
\* the handler invoked with its vars, and the panic of Handle.
NoResp == [status |-> 0, location |-> <<>>, looked |-> <<>>,
           invoked |-> NilHandler, vars |-> NoParams, panic |-> NoPanic]

\* http.StatusMovedPermanently
StatusMovedPermanently == 301

\* the status written by http.NotFoundHandler()
StatusNotFound == 404

\* a goroutine outside every call of the Router; caller tells whether the
\* call in progress was made by the goroutine itself ("go") or by the
\* handler it is running ("handler")
Idle == [pc |-> "idle", caller |-> "go", req |-> NoReq, snap |-> newLookup,
         resp |-> NoResp]

\* escape(s, encodePath) of net/url on an already escaped path: every
\* character of the model's paths is written as it is but "%", which
\* becomes "%25".
RECURSIVE escape(_)
escape(s) ==
  IF s = <<>> THEN <<>>
  ELSE (IF Head(s) = "%" THEN <<"%", "2", "5">> ELSE <<Head(s)>>)
         \o escape(Tail(s))

\* url.String() of a URL without scheme and host after url.Path = p: the
\* RawPath of the request no longer encodes Path, so EscapedPath() escapes
\* Path; the query follows when there is one.
URLString(p, query) ==
  escape(p) \o (IF query # <<>> THEN <<"?">> \o query ELSE <<>>)

\* The Location written by http.Redirect for a url that begins with "/":
\* the part before the first "?" cleaned with its trailing slash kept.
Redirect(url) ==
  LET qs == {i \in 1..Len(url) : url[i] = "?"}
      i == IF qs = {} THEN Len(url) + 1
           ELSE CHOOSE k \in qs : \A j \in qs : k <= j
      u == SubSeq(url, 1, i - 1)
      query == SubSeq(url, i, Len(url))
      c == Clean(u)
  IN (IF HasSuffix(u, "/") /\ ~HasSuffix(c, "/") THEN c \o <<"/">> ELSE c)
       \o query

\* r.mu.RLock() returns when no goroutine holds the lock for writing.
CanRLock_Always(m) == TRUE

CanRLock(m) == m.writer = {}

\* r.mu.Lock() returns when no goroutine holds the lock at all.
CanLock(m) == m.writer = {} /\ m.readers = {}

\* The requests: methods, escaped paths (clean, with a trailing slash,
\* unclean, unclean with an escaped character) and raw queries.
Methods == {"GET", "CONNECT"}

ServePaths ==
  { <<"/", "a", "/", "a">>,
    <<"/", "a", "/", "a", "/">>,
    <<"/", "/", "a">>,
    <<"/", "%", "2", "0", "/", "/", "a">> }

Queries == {<<>>, <<"v", "=", "5">>}

\* Every method with every path, and the requests that are redirected with
\* every query (TestRouterUncleanPathRedirectDoesNotClearQuery)
ServeRequests ==
  {r \in [method : Methods, path : ServePaths, query : Queries] :
     r.query # <<>> => (r.method # "CONNECT" /\ cleanPath(r.path) # r.path)}

\* The routes handed to Handle; the last two are one without a leading
\* slash and the empty string.
HandlePatterns ==
  { <<"/", "a", "/", ":", "y">>, <<"/", "*", "p">>, <<"a">>, <<>> }

(***************************************************************************)
(* The state machine.                                                      *)
(***************************************************************************)
Init ==
  /\ tree = newLookup
  /\ nAdds = 0
  /\ routes = <<>>
  /\ op = "New"
  /\ arg = <<>>
  /\ panicked = NoPanic
  /\ handler = NilHandler
  /\ params = NoParams
  /\ pre = newLookup
  /\ cleaned = <<>>
  /\ mu = Unlocked
  /\ procs = [g \in Goroutines |-> Idle]

\* look.Add(path, h); routes remembers the route each handler was
\* registered for by the calls that returned.
Add(path, h) ==
  LET r == AddOp(tree, path, h)
  IN /\ tree' = r.tree
     /\ nAdds' = nAdds + 1
     /\ routes' = IF r.panic = NoPanic THEN (h :> path) @@ routes ELSE routes
     /\ op' = "Add"
     /\ arg' = path
     /\ panicked' = r.panic
     /\ handler' = h
     /\ params' = NoParams
     /\ pre' = tree
     /\ UNCHANGED routerVars

\* A lookup that creates the exact child it asks for, as an indexing
\* that allocates on a miss would.
Get_Vivify(path) ==
  LET r == GetOp(tree, path)
      part == GetParts(path)[1]
  IN /\ op' = "Get"
     /\ arg' = path
     /\ panicked' = NoPanic
     /\ handler' = r.handler
     /\ params' = r.pars
     /\ pre' = tree
     /\ tree' = IF HasChild(tree, root, part) THEN tree
                ELSE LinkChild(tree, root, part)
     /\ UNCHANGED <<nAdds, routes, routerVars>>

\* look.Get(path)
Get(path) ==
  LET r == GetOp(tree, path)
  IN /\ op' = "Get"
     /\ arg' = path
     /\ panicked' = NoPanic
     /\ handler' = r.handler
     /\ params' = r.pars
     /\ pre' = tree
     /\ UNCHANGED <<tree, nAdds, routes, routerVars>>

\* register(lookup, route) of lookup_test.go: the handler is made from the
\* route
Register == nAdds < MaxAdds /\ \E p \in RoutePatterns : Add(p, p)

Lookup == \E p \in Paths : Get(p)

Next == Register \/ Lookup

Spec == Init /\ [][Next]_vars

RegisterAny == nAdds < MaxRegs /\ \E p \in AllPatterns : Add(p, p)

NextRegister == RegisterAny

SpecRegister == Init /\ [][NextRegister]_vars

\* Registrations whose handler is chosen apart from the route, as in
\* lookup.Add("/file/*path", registeredHandler{"yay"}) followed by
\* lookup.Add("/file/*path", registeredHandler{""}).
Handlers == {<<"h1">>, <<"h2">>}

Rebind ==
  nAdds < MaxRebinds /\ \E p \in RoutePatterns, h \in Handlers : Add(p, h)

NextRebind == Rebind

SpecRebind == Init /\ [][NextRebind]_vars

\* Routes of three segments that put an exact child and a named edge at
\* every node above the handlers, and a route of two; paths of one to three
\* segments.
CostPatterns ==
  {Slashed(<<s1, s2, <<"a">>>>) :
     s1 \in {<<"a">>, <<":", "x">>}, s2 \in {<<"a">>, <<":", "y">>}}
  \cup {Slashed(<<<<":", "x">>, <<"a">>>>)}

CostPaths ==
  {Slashed(segs) : segs \in SegSeqs(PathSegs, MaxPathSegs + 1)}

RegisterCost == nAdds < MaxCostAdds /\ \E p \in CostPatterns : Add(p, p)

LookupCost == \E p \in CostPaths : Get(p)

NextCost == RegisterCost \/ LookupCost

SpecCost == Init /\ [][NextCost]_vars

\* cleanPath applied to a string, then to its own result
InitClean ==
  /\ tree = newLookup
  /\ nAdds = 0
  /\ routes = <<>>
  /\ op = "New"
  /\ arg \in CleanInputs
  /\ panicked = NoPanic
  /\ handler = NilHandler
  /\ params = NoParams
  /\ pre = newLookup
  /\ cleaned = <<>>
  /\ mu = Unlocked
  /\ procs = [g \in Goroutines |-> Idle]

CleanPath ==
  /\ Len(cleaned) < MaxCleans
  /\ cleaned' = Append(cleaned, cleanPath(IF cleaned = <<>> THEN arg
                                          ELSE cleaned[Len(cleaned)]))
  /\ UNCHANGED <<tree, nAdds, routes, op, arg, panicked, handler, params, pre,
                 mu, procs>>

NextClean == CleanPath

SpecClean == InitClean /\ [][NextClean]_vars

\* The history of the trie's own calls is left alone by the Router's.
lookupHistory == <<op, arg, panicked, handler, params, pre, cleaned>>

\* The call of Router.Handle(path, h), by a goroutine or by the handler a
\* goroutine is running inside ServeHTTP: the goroutine arrives at
\* r.mu.Lock().
HandleCall(g, path, h) ==
  /\ procs[g].pc \in {"idle", "ServeHTTP:handler"}
  /\ procs' = [procs EXCEPT ![g] =
        [pc |-> "Handle:Lock",
         caller |-> IF procs[g].pc = "idle" THEN "go" ELSE "handler",
         req |-> [NoReq EXCEPT !.kind = "Handle", !.path = path, !.h = h],
         snap |-> procs[g].snap,
         resp |-> NoResp]]
  /\ nAdds' = nAdds + 1
  /\ UNCHANGED <<tree, routes, mu, lookupHistory>>

\* r.mu.Lock() returning
HandleLock(g) ==
  /\ procs[g].pc = "Handle:Lock"
  /\ CanLock(mu)
  /\ mu' = [mu EXCEPT !.writer = {g}]
  /\ procs' = [procs EXCEPT ![g].pc = "Handle:Add", ![g].snap = tree]
  /\ UNCHANGED <<tree, nAdds, routes, lookupHistory>>

\* the check of path[0] and r.tree.Add(path, v)
HandleAdd(g) ==
  LET path == procs[g].req.path
      h == procs[g].req.h
      r == IF path = <<>>
           THEN [tree |-> tree, panic |-> "index out of range"]
           ELSE IF path[1] # "/"
           THEN [tree |-> tree, panic |-> "path must begin with '/'"]
           ELSE AddOp(tree, path, h)
  IN /\ procs[g].pc = "Handle:Add"
     /\ tree' = r.tree
     /\ routes' = IF r.panic = NoPanic THEN (h :> path) @@ routes ELSE routes
     /\ procs' = [procs EXCEPT ![g].pc = "Handle:Unlock",
                               ![g].resp.panic = r.panic]
     /\ UNCHANGED <<nAdds, mu, lookupHistory>>

\* A Handle whose Unlock is a statement after the Add, which a panic skips
HandleUnlock_OnReturn(g) ==
  /\ procs[g].pc = "Handle:Unlock"
  /\ mu' = IF procs[g].resp.panic = NoPanic
           THEN [mu EXCEPT !.writer = {}] ELSE mu
  /\ procs' = [procs EXCEPT ![g] =
        IF procs[g].resp.panic = NoPanic THEN Idle
        ELSE [Idle EXCEPT !.pc = "Handle:panic"]]
  /\ UNCHANGED <<tree, nAdds, routes, lookupHistory>>

\* the deferred r.mu.Unlock(), run on return and on panic; a panic goes on
\* to the caller
HandleUnlock(g) ==
  /\ procs[g].pc = "Handle:Unlock"
  /\ mu' = [mu EXCEPT !.writer = {}]
  /\ procs' = [procs EXCEPT ![g] =
        IF procs[g].resp.panic = NoPanic THEN Idle
        ELSE [Idle EXCEPT !.pc = "Handle:panic"]]
  /\ UNCHANGED <<tree, nAdds, routes, lookupHistory>>

\* Router.ServeHTTP, the request redirected to its clean path
ServeRedirect(g, method, path, query) ==
  /\ procs[g].pc = "idle"
  /\ method # "CONNECT"
  /\ cleanPath(path) # path
  /\ procs' = [procs EXCEPT ![g] =
        [pc |-> "ServeHTTP:return",
         caller |-> "go",
         req |-> [NoReq EXCEPT !.kind = "ServeHTTP", !.method = method,
                               !.path = path, !.query = query],
         snap |-> newLookup,
         resp |-> [NoResp EXCEPT
                     !.status = StatusMovedPermanently,
                     !.location = Redirect(URLString(cleanPath(path), query))]]]
  /\ UNCHANGED <<tree, nAdds, routes, mu, lookupHistory>>

\* the return of the redirect branch, and a panic of Handle or of a
\* handler arriving at the caller of the Router
ServeReturn(g) ==
  /\ procs[g].pc \in {"ServeHTTP:return", "Handle:panic", "ServeHTTP:panic"}
  /\ procs' = [procs EXCEPT ![g] = Idle]
  /\ UNCHANGED <<tree, nAdds, routes, mu, lookupHistory>>

\* Router.ServeHTTP, a request that is not redirected, up to r.mu.RLock()
\* returning
ServeRLock(g, method, path, query) ==
  /\ procs[g].pc = "idle"
  /\ ~(method # "CONNECT" /\ cleanPath(path) # path)
  /\ CanRLock(mu)
  /\ mu' = [mu EXCEPT !.readers = @ \cup {g}]
  /\ procs' = [procs EXCEPT ![g] =
        [pc |-> "ServeHTTP:Get",
         caller |-> "go",
         req |-> [NoReq EXCEPT !.kind = "ServeHTTP", !.method = method,
                               !.path = path, !.query = query],
         snap |-> tree,
         resp |-> NoResp]]
  /\ UNCHANGED <<tree, nAdds, routes, lookupHistory>>

\* A ServeHTTP that gives the read lock back once Get has returned
ServeGet_UnlockEarly(g) ==
  LET path == procs[g].req.path
      r == GetOp(tree, path)
  IN /\ procs[g].pc = "ServeHTTP:Get"
     /\ mu' = [mu EXCEPT !.readers = @ \ {g}]
     /\ procs' = [procs EXCEPT
           ![g].pc = IF r.handler # NilHandler THEN "ServeHTTP:handler"
                     ELSE "ServeHTTP:RUnlock",
           ![g].resp = IF r.handler # NilHandler
                       THEN [NoResp EXCEPT !.looked = <<path>>,
                                           !.invoked = r.handler,
                                           !.vars = r.pars]
                       ELSE [NoResp EXCEPT !.status = StatusNotFound,
                                           !.looked = <<path>>]]
     /\ UNCHANGED <<tree, nAdds, routes, lookupHistory>>

\* r.tree.Get(path), then the call of the handler found, or the
\* NotFoundHandler
ServeGet(g) ==
  LET path == procs[g].req.path
      r == GetOp(tree, path)
  IN /\ procs[g].pc = "ServeHTTP:Get"
     /\ procs' = [procs EXCEPT
           ![g].pc = IF r.handler # NilHandler THEN "ServeHTTP:handler"
                     ELSE "ServeHTTP:RUnlock",
           ![g].resp = IF r.handler # NilHandler
                       THEN [NoResp EXCEPT !.looked = <<path>>,
                                           !.invoked = r.handler,
                                           !.vars = r.pars]
                       ELSE [NoResp EXCEPT !.status = StatusNotFound,
                                           !.looked = <<path>>]]
     /\ UNCHANGED <<tree, nAdds, routes, mu, lookupHistory>>

\* handle.ServeErrorHTTP(w, req) returning, with or without an error
HandlerReturn(g) ==
  /\ procs[g].pc = "ServeHTTP:handler"
  /\ procs' = [procs EXCEPT ![g].pc = "ServeHTTP:RUnlock"]
  /\ UNCHANGED <<tree, nAdds, routes, mu, lookupHistory>>

\* the handler panicking
HandlerPanic(g) ==
  /\ procs[g].pc = "ServeHTTP:handler"
  /\ procs' = [procs EXCEPT ![g].pc = "ServeHTTP:RUnlock",
                            ![g].resp.panic = "handler"]
  /\ UNCHANGED <<tree, nAdds, routes, mu, lookupHistory>>

\* the deferred r.mu.RUnlock(), run on return and on panic; a panic goes
\* on to the caller
ServeRUnlock(g) ==
  /\ procs[g].pc = "ServeHTTP:RUnlock"
  /\ mu' = [mu EXCEPT !.readers = @ \ {g}]
  /\ procs' = [procs EXCEPT ![g] =
        IF procs[g].resp.panic = NoPanic THEN Idle
        ELSE [Idle EXCEPT !.pc = "ServeHTTP:panic"]]
  /\ UNCHANGED <<tree, nAdds, routes, lookupHistory>>

\* router.Handle(route, handler) with the handler made from the route
HandleRoute(g) ==
  nAdds < MaxHandles /\ \E p \in HandlePatterns : HandleCall(g, p, p)

NextRouter ==
  \E g \in Goroutines :
    \/ HandleRoute(g)
    \/ HandleLock(g)
    \/ HandleAdd(g)
    \/ HandleUnlock(g)
    \/ \E r \in ServeRequests : ServeRedirect(g, r.method, r.path, r.query)
    \/ ServeReturn(g)
    \/ \E r \in ServeRequests : ServeRLock(g, r.method, r.path, r.query)
    \/ ServeGet(g)
    \/ HandlerReturn(g)
    \/ HandlerPanic(g)
    \/ ServeRUnlock(g)

SpecRouter == Init /\ [][NextRouter]_vars

\* TestRouterConcurrentRegisterAndRouting: on a fresh Router one
\* router.Handle(p, handler) and requests GET p, from different goroutines;
\* the handler records its use and returns.
RacePaths == {Slashed(<<<<"a">>>>), Slashed(<<<<"b">>>>),
              Slashed(<<<<"a">>, <<"a">>>>)}

\* the one registration of the run
HandleOnce(g) == nAdds = 0 /\ \E p \in RacePaths : HandleCall(g, p, p)

NextRace ==
  \E g \in Goroutines :
    \/ HandleOnce(g)
    \/ HandleLock(g)
    \/ HandleAdd(g)
    \/ HandleUnlock(g)
    \/ \E p \in RacePaths : ServeRLock(g, "GET", p, <<>>)
    \/ ServeGet(g)
    \/ HandlerReturn(g)
    \/ ServeRUnlock(g)

SpecRace == Init /\ [][NextRace]_vars

(***************************************************************************)
(* What the claims speak of.                                               *)
(***************************************************************************)
\* The routes registered by the Add calls that returned
Registered == {routes[h] : h \in DOMAIN routes}

\* The segments of a pattern, which follow its first "/"
PatternSegs(pattern) == Tail(Split(pattern))

IsNamed(seg) == HasPrefix(seg, ":")

IsCatchAll(seg) == HasPrefix(seg, "*")

\* A pattern matches a path: literal segments are equal, a named parameter
\* takes exactly one segment, a final catch-all takes what remains.
RECURSIVE Matches(_, _)
Matches(pat, segs) ==
  IF pat = <<>> THEN segs = <<>>
  ELSE IF IsCatchAll(Head(pat)) THEN Len(pat) = 1
  ELSE IF segs = <<>> THEN FALSE
  ELSE IF IsNamed(Head(pat)) THEN Matches(Tail(pat), Tail(segs))
  ELSE Head(pat) = Head(segs) /\ Matches(Tail(pat), Tail(segs))

\* The bindings a matching pattern makes on a path
RECURSIVE Bindings(_, _)
Bindings(pat, segs) ==
  IF pat = <<>> THEN NoParams
  ELSE IF IsCatchAll(Head(pat)) THEN (Tail(Head(pat)) :> Join(segs))
  ELSE IF segs = <<>> THEN NoParams
  ELSE IF IsNamed(Head(pat))
       THEN (Tail(Head(pat)) :> Head(segs)) @@ Bindings(Tail(pat), Tail(segs))
  ELSE Bindings(Tail(pat), Tail(segs))

\* The handler the priority order (exact, named, catch-all) selects at node
\* curr for the segments parts; with no segment left, what the node returns.
RECURSIVE PriorityHandler(_, _, _)
PriorityHandler(t, curr, parts) ==
  IF parts = <<>> THEN getEnd(t, curr, NoParams).handler
  ELSE
    LET exact == IF HasChild(t, curr, Head(parts))
                 THEN PriorityHandler(t, t[curr].children[Head(parts)],
                                      Tail(parts))
                 ELSE NilHandler
        named == IF t[curr].wildedge # <<>>
                 THEN PriorityHandler(t, t[curr].wildedge[1].child, Tail(parts))
                 ELSE NilHandler
        catch == IF t[curr].greedyleaf # <<>>
                 THEN t[curr].greedyleaf[1].value
                 ELSE NilHandler
    IN IF exact # NilHandler THEN exact
       ELSE IF named # NilHandler THEN named
       ELSE catch

\* The node reached from the root through exact children only, if any
RECURSIVE ExactNode(_, _, _)
ExactNode(t, curr, parts) ==
  IF parts = <<>> THEN <<curr>>
  ELSE IF HasChild(t, curr, Head(parts))
       THEN ExactNode(t, t[curr].children[Head(parts)], Tail(parts))
       ELSE <<>>

(***************************************************************************)
(* Lookup.                                                                 *)
(***************************************************************************)
\* C1: when some registered pattern matches the path, Get returns a handler,
\* also when the exact or named branch it tried first was a dead end.
C1_GetComplete ==
  (op = "Get" /\ \E p \in Registered : Matches(PatternSegs(p), GetParts(arg)))
    => handler # NilHandler

\* A lookup whose first segment has an exact child that leads nowhere and
\* that still returns a handler.
C1_Witness ==
  /\ op = "Get"
  /\ handler # NilHandler
  /\ GetParts(arg) # <<>>
  /\ HasChild(tree, root, Head(GetParts(arg)))
  /\ get(tree, tree[root].children[Head(GetParts(arg))],
         Tail(GetParts(arg)), NoParams).handler = NilHandler

\* C2: the handler Get returns is the one the priority order selects at
\* every node of the walk: the exact child's subtree, else the named edge,
\* else the catch-all of that node.
C2_GetPriority ==
  op = "Get" => handler = PriorityHandler(tree, root, GetParts(arg))

\* A lookup at a root that has an exact child for the segment, a named edge
\* and a catch-all, answered from the exact child.
C2_Witness ==
  /\ op = "Get"
  /\ Len(GetParts(arg)) = 1
  /\ HasChild(tree, root, Head(GetParts(arg)))
  /\ tree[root].wildedge # <<>>
  /\ tree[root].greedyleaf # <<>>
  /\ tree[tree[root].wildedge[1].child].value # NilHandler
  /\ handler # NilHandler
  /\ handler = tree[tree[root].children[Head(GetParts(arg))]].value

\* C3: at a node reached with no segment left that has a terminal handler
\* and a greedy leaf, Get returns the terminal handler and does not bind the
\* catch-all name.
C3_TerminalBeforeGreedy ==
  LET n == ExactNode(tree, root, GetParts(arg))
  IN (/\ op = "Get"
      /\ n # <<>>
      /\ tree[n[1]].value # NilHandler
      /\ tree[n[1]].greedyleaf # <<>>)
     => /\ handler = tree[n[1]].value
        /\ tree[n[1]].greedyleaf[1].name \notin DOMAIN params

\* C4: the parameter map returned with a handler holds exactly the bindings
\* of the pattern the handler was registered for.
C4_ExactBindings ==
  (op = "Get" /\ handler # NilHandler)
    => params = Bindings(PatternSegs(routes[handler]), GetParts(arg))

\* C5: a lookup that finds no handler returns an empty parameter map.
C5_NoMatchNoParams ==
  (op = "Get" /\ handler = NilHandler) => params = NoParams

(***************************************************************************)
(* Registration.                                                           *)
(***************************************************************************)
\* The string without its last character
Front(s) == SubSeq(s, 1, Len(s) - 1)

\* Every segment of a pattern, the one before the first "/" included when
\* the pattern does not begin with "/"
AllSegs(pattern) ==
  IF HasPrefix(pattern, "/") THEN Tail(Split(pattern)) ELSE Split(pattern)

\* The pattern's walk through the trie t arrives, at a node that exists,
\* with a named segment where the named edge has another name, or with a
\* catch-all segment where there is a greedy leaf.
RECURSIVE Conflict(_, _, _)
Conflict(t, curr, segs) ==
  IF segs = <<>> THEN FALSE
  ELSE IF IsNamed(Head(segs))
       THEN /\ t[curr].wildedge # <<>>
            /\ \/ t[curr].wildedge[1].name # Tail(Head(segs))
               \/ Conflict(t, t[curr].wildedge[1].child, Tail(segs))
  ELSE IF IsCatchAll(Head(segs)) THEN t[curr].greedyleaf # <<>>
  ELSE /\ HasChild(t, curr, Head(segs))
       /\ Conflict(t, t[curr].children[Head(segs)], Tail(segs))

ConflictPanics ==
  {"wildedge with different name already registered",
   "greedy parameter already registered"}

\* A pattern that is not "/" and ends with "/", has a segment ":" or "*", or
\* has a segment after a catch-all
Invalid(pattern) ==
  \/ pattern # <<"/">> /\ HasSuffix(pattern, "/")
  \/ \E i \in 1..Len(AllSegs(pattern)) :
        \/ AllSegs(pattern)[i] \in {<<":">>, <<"*">>}
        \/ IsCatchAll(AllSegs(pattern)[i]) /\ i < Len(AllSegs(pattern))

\* C6: Add of a pattern that does not begin with "/" panics and leaves the
\* trie unchanged.
C6_NoLeadingSlashRejected ==
  (op = "Add" /\ ~HasPrefix(arg, "/")) => (panicked # NoPanic /\ tree = pre)

\* C7: after a failing Add, Get returns for every path the handler and the
\* parameter map it returned before the call.
C7_FailedAddKeepsLookups ==
  (op = "Add" /\ panicked # NoPanic)
    => \A p \in Paths : GetOp(tree, p) = GetOp(pre, p)

\* C8: an Add that meets a named edge of another name, or a greedy leaf
\* where its catch-all segment arrives, panics and leaves the trie as it was.
C8_ConflictLeavesTrie ==
  op = "Add" =>
    /\ Conflict(pre, root, PatternSegs(arg))
         => panicked # NoPanic /\ tree = pre
    /\ panicked \in ConflictPanics => tree = pre

\* A second catch-all of another name, below a literal, met by the greedy
\* leaf the first call installed.
C8_Witness ==
  /\ op = "Add"
  /\ panicked = "greedy parameter already registered"
  /\ Len(PatternSegs(arg)) = 2
  /\ HasChild(pre, root, PatternSegs(arg)[1])
  /\ pre[pre[root].children[PatternSegs(arg)[1]]].greedyleaf # <<>>
  /\ pre[pre[root].children[PatternSegs(arg)[1]]].greedyleaf[1].name
       # Tail(PatternSegs(arg)[2])

\* C9: Add panics for every invalid pattern, whatever the trie holds.
C9_InvalidRejected ==
  (op = "Add" /\ Invalid(arg)) => panicked # NoPanic

\* C10: Get of a path with a trailing slash returns what Get returns for
\* the path without it.
C10_TrailingSlash ==
  (/\ op = "Get"
   /\ Len(arg) > 1
   /\ HasSuffix(arg, "/")
   /\ HasPrefix(Front(arg), "/")
   /\ ~HasSuffix(Front(arg), "/"))
    => [handler |-> handler, pars |-> params] = GetOp(tree, Front(arg))

\* A lookup of a path with a trailing slash that returns a handler and a
\* binding.
C10_Witness ==
  /\ op = "Get"
  /\ Len(arg) > 1
  /\ HasSuffix(arg, "/")
  /\ handler # NilHandler
  /\ params # NoParams

(***************************************************************************)
(* Parameters.                                                             *)
(***************************************************************************)
\* The segments of the route the returned handler was registered for
HandlerSegs == PatternSegs(routes[handler])

\* C11: in a successful Get every named parameter of the matched pattern is
\* bound to the one segment at its position, and that segment is not empty.
C11_NamedNonEmpty ==
  (op = "Get" /\ handler # NilHandler)
    => \A i \in 1..Len(HandlerSegs) :
          IsNamed(HandlerSegs[i])
            => /\ i <= Len(GetParts(arg))
               /\ GetParts(arg)[i] # <<>>
               /\ Tail(HandlerSegs[i]) \in DOMAIN params
               /\ params[Tail(HandlerSegs[i])] = GetParts(arg)[i]

C20_FailedAddAtomic ==
  (op = "Add" /\ panicked # NoPanic) => tree = pre

(***************************************************************************)
(* Permanence and frame.                                                   *)
(***************************************************************************)
\* C13: a handler bound to a pattern is permanent: a later Add that returns,
\* the Add of the same pattern with another handler included, leaves every
\* handler stored in the trie (node values and greedy leaves) as it was.
C13_HandlerPermanent ==
  (op = "Add" /\ panicked = NoPanic)
    => \A n \in DOMAIN pre :
          /\ pre[n].value # NilHandler => tree[n].value = pre[n].value
          /\ pre[n].greedyleaf # <<>> => tree[n].greedyleaf = pre[n].greedyleaf

\* C14: Get never mutates the trie: after every lookup the nodes, exact
\* children, named edges, greedy leaves and handlers are the ones before it.
C14_GetKeepsTrie == op = "Get" => tree = pre

\* A lookup on a trie with routes that took a named edge, found nothing
\* below it and returned nil.
C14_Witness ==
  /\ op = "Get"
  /\ tree # newLookup
  /\ handler = NilHandler
  /\ params # NoParams

(***************************************************************************)
(* cleanPath and the Router.                                               *)
(***************************************************************************)
\* C15: cleanPath is idempotent: cleanPath(cleanPath(p)) = cleanPath(p) for
\* every string p, the empty string, strings without a leading slash, with
\* "." and ".." elements, repeated and trailing slashes included.
C15_CleanPathIdempotent ==
  \A i \in 2..Len(cleaned) : cleaned[i] = cleaned[i - 1]

\* cleanPath applied twice to a string that had no leading slash, a ".."
\* element and a trailing slash, whose result kept a trailing slash.
C15_Witness ==
  /\ Len(cleaned) = 2
  /\ arg # <<>> /\ arg[1] # "/"
  /\ \E i \in 1..Len(Split(arg)) : Split(arg)[i] = <<".", ".">>
  /\ Len(cleaned[1]) > 1
  /\ HasSuffix(cleaned[1], "/")

Range(f) == {f[i] : i \in DOMAIN f}

\* the ServeHTTP calls that have written their response
Answered(g) ==
  /\ procs[g].req.kind = "ServeHTTP"
  /\ procs[g].pc \in {"ServeHTTP:RUnlock", "ServeHTTP:return"}

\* C16: ServeHTTP answers every request that is not a CONNECT and whose
\* escaped path differs from its cleanPath with a 301 to the cleaned path
\* followed by the query, and neither looks up nor invokes a handler; a
\* CONNECT request is never redirected and is looked up with its path as
\* given.
C16_UncleanRedirect ==
  \A g \in Goroutines :
    LET req == procs[g].req
        resp == procs[g].resp
    IN Answered(g) =>
         IF req.method # "CONNECT" /\ cleanPath(req.path) # req.path
         THEN /\ resp.status = StatusMovedPermanently
              /\ resp.location =
                    cleanPath(req.path)
                      \o (IF req.query # <<>> THEN <<"?">> \o req.query
                          ELSE <<>>)
              /\ resp.looked = <<>>
              /\ resp.invoked = NilHandler
         ELSE req.method = "CONNECT"
                => /\ resp.status # StatusMovedPermanently
                   /\ resp.looked = <<req.path>>

\* C17: the Router corrects a trailing slash by redirecting: a request for
\* a path that a registered route matches, with a slash added, is answered
\* with a redirect to the path without the slash, and the route's handler
\* is not invoked.  (Stated for routes without a catch-all, whose matches
\* the package documentation lists with and without the slash.)
C17_TrailingSlashRedirect ==
  \A g \in Goroutines :
    LET req == procs[g].req
        resp == procs[g].resp
    IN (/\ Answered(g)
        /\ req.method # "CONNECT"
        /\ Len(req.path) > 1
        /\ HasSuffix(req.path, "/")
        /\ cleanPath(Front(req.path)) = Front(req.path)
        /\ GetOp(tree, Front(req.path)).handler # NilHandler
        /\ \A seg \in
              Range(PatternSegs(GetOp(tree, Front(req.path)).handler)) :
                ~IsCatchAll(seg))
         => /\ resp.status = StatusMovedPermanently
            /\ resp.location = Front(req.path)
            /\ resp.invoked = NilHandler

\* the goroutines inside tree.Add's and tree.Get's critical sections
Writing(g) == procs[g].pc \in {"Handle:Add", "Handle:Unlock"}

Reading(g) ==
  \/ procs[g].pc \in {"ServeHTTP:Get", "ServeHTTP:handler", "ServeHTTP:RUnlock"}
  \/ procs[g].pc = "Handle:Lock" /\ procs[g].caller = "handler"

\* C18: through the Router a registration has exclusive access: no lookup
\* runs while an Add is in progress and no two Adds overlap, in every
\* interleaving; a lookup returns what a sequential Get returns on the
\* trie as the Handle calls completed before its read lock left it.
C18_ExclusiveRegistration ==
  /\ \A g1, g2 \in Goroutines :
        (g1 # g2 /\ Writing(g1)) => ~Writing(g2) /\ ~Reading(g2)
  /\ \A g \in Goroutines :
        Reading(g) => procs[g].snap = tree
  /\ \A g \in Goroutines :
        procs[g].pc = "ServeHTTP:RUnlock"
          => LET r == GetOp(procs[g].snap, procs[g].req.path)
             IN /\ procs[g].resp.invoked = r.handler
                /\ r.handler # NilHandler => procs[g].resp.vars = r.pars

\* Two lookups overlapping on a trie with routes, one of them answered by
\* a handler, after every Handle call of the run.
C18_Witness ==
  /\ nAdds = MaxHandles
  /\ tree # newLookup
  /\ \E g1, g2 \in Goroutines :
        /\ g1 # g2
        /\ procs[g1].pc = "ServeHTTP:RUnlock"
        /\ procs[g1].resp.invoked # NilHandler
        /\ Reading(g2)

(***************************************************************************)
(* The cost of Get.                                                        *)
(***************************************************************************)
\* the nodes the last Get visited and the segments of its path
Visits == getVisits(tree, root, GetParts(arg))

Segments == Len(GetParts(arg))

\* no node with an exact child and a named edge: nothing to go back to
NoFork(t) ==
  \A n \in DOMAIN t : t[n].children = <<>> \/ t[n].wildedge = <<>>

\* C19: Get terminates and the nodes it visits are bounded by a linear
\* function of the number of path segments, whatever the routes, going back
\* included: at most one node per segment, the root, and one more node per
\* segment for going back.
C19_LinearCost == op = "Get" => Visits <= 2 * Segments + 1

\* What does hold of the cost: the nodes Get visits are bounded by the
\* number of path segments alone, by 2^(n+1) - 1 for n segments, and by
\* n + 1 when no node has both an exact child and a named edge.
CostBound ==
  op = "Get"
    => /\ Visits <= 2 ^ (Segments + 1) - 1
       /\ NoFork(tree) => Visits <= Segments + 1

\* A lookup of two segments that went back at both levels: seven nodes.
CostBoundReached ==
  /\ op = "Get"
  /\ Segments = 2
  /\ handler = NilHandler
  /\ Visits = 2 ^ (Segments + 1) - 1

(***************************************************************************)
(* Failing and reordered registrations.                                    *)
(***************************************************************************)
\* C22: a failing Add never changes which handler is selected: Get returns
\* for every path the handler (or none) it returned before the call, since
\* the call leaves every handler and greedy leaf as it was and the nodes it
\* links carry neither.
C22_FailedAddKeepsHandlers ==
  (op = "Add" /\ panicked # NoPanic)
    => /\ \A p \in Paths : GetOp(tree, p).handler = GetOp(pre, p).handler
       /\ \A n \in DOMAIN tree :
             IF n \in DOMAIN pre
             THEN /\ tree[n].value = pre[n].value
                  /\ tree[n].greedyleaf = pre[n].greedyleaf
             ELSE /\ tree[n].value = NilHandler
                  /\ tree[n].greedyleaf = <<>>

\* A failing Add that linked a named edge at the root of a trie with a
\* route, after which a lookup that meets the new edge finds a handler.
C22_Witness ==
  /\ op = "Add"
  /\ panicked # NoPanic
  /\ pre[root].wildedge = <<>>
  /\ tree[root].wildedge # <<>>
  /\ \E p \in Paths : GetOp(tree, p).handler # NilHandler

\* the orders in which the routes of S can be registered
Orders(S) ==
  {rs \in [1..Cardinality(S) -> S] :
     \A i, j \in 1..Cardinality(S) : rs[i] = rs[j] => i = j}

\* the last call was an Add and every Add so far returned, each for another
\* route beginning with "/"
AllAddsSucceeded ==
  /\ op = "Add"
  /\ Cardinality(Registered) = nAdds
  /\ \A p \in Registered : HasPrefix(p, "/")

\* C23: registration order does not matter: when the Add calls of distinct
\* routes beginning with "/" all succeeded in one order, they succeed in
\* every order, and every order yields the same trie and so the same
\* handler and parameters from Get for every path.
C23_OrderIndependent ==
  AllAddsSucceeded
    => \A rs \in Orders(Registered) :
          LET r == registerRoutes(newLookup, rs)
          IN /\ r.panic = NoPanic
             /\ r.tree = tree
             /\ \A p \in Paths : GetOp(r.tree, p) = GetOp(tree, p)

\* Three overlapping routes registered: an exact child, a named edge and a
\* greedy leaf at the root.
C23_Witness ==
  /\ AllAddsSucceeded
  /\ nAdds = MaxAdds
  /\ tree[root].children # <<>>
  /\ tree[root].wildedge # <<>>
  /\ tree[root].greedyleaf # <<>>

(***************************************************************************)
(* Goroutines, handlers and panics.                                        *)
(***************************************************************************)
\* C21: when Handle(p, h) and a request for p run concurrently on a fresh
\* Router, the request is dispatched to h in every interleaving: a request
\* for p that has its answer while the one Handle(p, h) is under way has
\* invoked h (nothing else invokes h later, so handler.Used stays as the
\* request left it).
C21_ConcurrentDispatch ==
  \A g1, g2 \in Goroutines :
    (/\ procs[g1].req.kind = "Handle"
     /\ procs[g2].req.kind = "ServeHTTP"
     /\ procs[g2].pc = "ServeHTTP:RUnlock"
     /\ procs[g2].req.path = procs[g1].req.path)
      => procs[g2].resp.invoked = procs[g1].req.h

\* C24: ServeHTTP holds the read lock from before the lookup until the
\* handler it dispatched to has returned, so no Handle gets past its Lock
\* while a handler runs; a Handle called from inside a handler waits at
\* its Lock for ever, behind the read lock of its own goroutine.
C24_LockHeldThroughHandler ==
  /\ \A g \in Goroutines : Reading(g) => g \in mu.readers
  /\ \A g1, g2 \in Goroutines :
        (Reading(g1) /\ procs[g1].pc # "ServeHTTP:Get") => ~Writing(g2)
  /\ \A g \in Goroutines :
        procs[g].caller = "handler" => procs[g].pc = "Handle:Lock"

\* A handler that called Handle and waits at the Lock, and a Handle of
\* another goroutine waiting at the Lock as well.
C24_Witness ==
  \E g1, g2 \in Goroutines :
    /\ procs[g1].pc = "Handle:Lock" /\ procs[g1].caller = "handler"
    /\ procs[g2].pc = "Handle:Lock" /\ procs[g2].caller = "go"

\* C25: a Handle that panics (no leading slash, empty path, an error of
\* Add) gives the write lock back before the panic leaves it, and a
\* handler that panics inside ServeHTTP gives the read lock back: the lock
\* is held only by goroutines inside Handle or ServeHTTP, never by one
\* whose call ended in a panic, so no later call waits for it.
C25_PanicReleasesLock ==
  \A g \in Goroutines :
    /\ g \in mu.writer => Writing(g)
    /\ g \in mu.readers => Reading(g)
    /\ procs[g].pc \in {"Handle:panic", "ServeHTTP:panic"}
         => g \notin mu.writer \cup mu.readers

\* After a handler's panic left ServeHTTP, a Handle of another goroutine
\* has taken the write lock and its Add has panicked.
C25_Witness ==
  \E g1, g2 \in Goroutines :
    /\ procs[g1].pc = "ServeHTTP:panic"
    /\ procs[g2].pc = "Handle:Unlock"
    /\ procs[g2].resp.panic # NoPanic

====
